---- MODULE Spec2Model ----
\* Predicate evaluation of policy-bot: the Title predicate
\* (src/policy/predicate/title.go) and the three signature predicates
\* HasValidSignatures, HasValidSignaturesBy and HasValidSignaturesByKeys
\* (src/unnamed/part_000).
\*
\* A Go string is a finite sequence of text pieces; "" is <<>>.  fmt.Sprintf is
\* the concatenation of the pieces of its format with its rendered arguments.
\* A Go error is the chain of its messages, outermost first; nil is <<>>.
EXTENDS Integers, Sequences, FiniteSets, TLC

\* ---------------------------------------------------------------- bounds
MaxCommits == 3
MaxKeyIDs == 2
MaxPatterns == 2
MaxTitleLen == 2
MaxRuns == 2

\* ------------------------------------------------------- strings, errors
EmptyString == <<>>
NilError == <<>>

\* fmt verb %.10s: precision of the short SHA
ShortShaLen == 10

\* %.10s : at most the first ShortShaLen characters of s
Precision(s) == SubSeq(s, 1, IF Len(s) < ShortShaLen THEN Len(s) ELSE ShortShaLen)

\* %q : s in double quotes
Quote(s) == <<"\"">> \o s \o <<"\"">>

\* errors.Wrap(err, msg): nil stays nil, otherwise msg is put in front of the chain
Wrap(err, msg) == IF err = NilError THEN NilError ELSE <<msg>> \o err

\* the triple Evaluate returns
Triple(satisfied, reason, err) == [satisfied |-> satisfied, reason |-> reason, err |-> err]

\* ---------------------------------------------------------- pull.Commit
Digits == <<"1", "2", "3", "4", "5", "6", "7", "8", "9">>

\* SHA of the i-th commit of the pull request: distinct per commit, longer
\* than the short form
ShaAt(i) == <<Digits[i], "a", "b", "c", "d", "e", "f", "0", "1", "2", "3", "4">>

Signers == {<<"alice">>, <<"bob">>}
Keys == {<<"K1">>, <<"K2">>}

NoSignature ==
    [isNil |-> TRUE, Type |-> "none", IsValid |-> FALSE, State |-> EmptyString,
     Signer |-> EmptyString, KeyID |-> EmptyString]

InvalidSignatures ==
    {[isNil |-> FALSE, Type |-> t, IsValid |-> FALSE, State |-> <<"unknown_key">>,
      Signer |-> EmptyString, KeyID |-> EmptyString] : t \in {"gpg", "ssh"}}

GpgSignatures ==
    {[isNil |-> FALSE, Type |-> "gpg", IsValid |-> TRUE, State |-> <<"valid">>,
      Signer |-> s, KeyID |-> k] : s \in Signers, k \in Keys}

SshSignatures ==
    {[isNil |-> FALSE, Type |-> "ssh", IsValid |-> TRUE, State |-> <<"valid">>,
      Signer |-> s, KeyID |-> EmptyString] : s \in Signers}

Signatures == {NoSignature} \cup InvalidSignatures \cup GpgSignatures \cup SshSignatures

\* commit lists of n commits, the i-th carrying ShaAt(i)
CommitLists(n) ==
    {[i \in 1..n |-> [SHA |-> ShaAt(i), Signature |-> sigs[i]]] : sigs \in [1..n -> Signatures]}

\* ------------------------------------------------------ hasValidSignature
hasValidSignature(commit) ==
    IF commit.Signature.isNil
    THEN [valid |-> FALSE,
          desc |-> <<"Commit ">> \o Precision(commit.SHA) \o <<" has no signature">>]
    ELSE IF ~commit.Signature.IsValid
    THEN [valid |-> FALSE,
          desc |-> <<"Commit ">> \o Precision(commit.SHA)
                   \o <<" has an invalid signature due to ">> \o commit.Signature.State]
    ELSE [valid |-> TRUE, desc |-> EmptyString]

\* variant: the fetch error is returned as it is
CommitsFailed_Unwrapped(err) == Triple(FALSE, EmptyString, err)

\* what each signature predicate returns when prctx.Commits() fails
CommitsFailed(err) == Triple(FALSE, EmptyString, Wrap(err, "failed to get commits"))

\* ------------------------------------------------------ HasValidSignatures
\* variant: the toggle is not consulted on an invalid commit
HasValidSignatures_Invalid_AnyToggle(required, desc) == Triple(FALSE, desc, NilError)

\* the body of "if !valid" in the loop over the commits
HasValidSignatures_Invalid(required, desc) ==
    IF required
    THEN Triple(FALSE, desc, NilError)
    ELSE Triple(TRUE, EmptyString, NilError)

\* variant: the all-valid branch of the false toggle gives no reason
HasValidSignatures_AllValid_NoReason(required) ==
    IF required
    THEN Triple(TRUE, EmptyString, NilError)
    ELSE Triple(FALSE, EmptyString, NilError)

\* the statements after the loop: every commit was valid
HasValidSignatures_AllValid(required) ==
    IF required
    THEN Triple(TRUE, EmptyString, NilError)
    ELSE Triple(FALSE, <<"All commits are signed and have valid signatures">>, NilError)

\* ---------------------------------------------------- HasValidSignaturesBy
\* variant: the map keeps the last signer only
AddSigner_Overwrites(set, commit) == {commit.Signature.Signer}

\* signers[c.Signature.Signer] = struct{}{}
AddSigner(set, commit) == set \cup {commit.Signature.Signer}

NonMemberReason(signer) ==
    <<"Contributor ">> \o Quote(signer)
    \o <<" does not meet the required membership conditions for signing">>

\* variant: the loop returns satisfied on the first member
HasValidSignaturesBy_Member_ReturnsOnMember(signer, member, err) ==
    IF err # NilError
    THEN [return |-> TRUE, result |-> Triple(FALSE, EmptyString, err)]
    ELSE IF ~member
    THEN [return |-> TRUE, result |-> Triple(FALSE, NonMemberReason(signer), NilError)]
    ELSE [return |-> TRUE, result |-> Triple(TRUE, EmptyString, NilError)]

\* the body of the loop over the signers, given IsActor's answer for signer:
\* return says whether Evaluate returns, result what it returns
HasValidSignaturesBy_Member(signer, member, err) ==
    IF err # NilError
    THEN [return |-> TRUE, result |-> Triple(FALSE, EmptyString, err)]
    ELSE IF ~member
    THEN [return |-> TRUE, result |-> Triple(FALSE, NonMemberReason(signer), NilError)]
    ELSE [return |-> FALSE, result |-> Triple(TRUE, EmptyString, NilError)]

\* variant: a visited key is visited again
RangeRest_Revisits(rest, k) == rest

\* range over a map: every key is visited once, in an order the runtime picks;
\* the keys still to visit after visiting k
RangeRest(rest, k) == rest \ {k}

\* ------------------------------------------------ HasValidSignaturesByKeys
NotGpgReason(commit) ==
    <<"Commit ">> \o Precision(commit.SHA) \o <<" signature is not a GPG signature">>

BadKeyReason(key) ==
    <<"Key ">> \o Quote(key) \o <<" does not meet the required key conditions for signing">>

\* variant: every signature type is accepted
IsGpg_AnyType(commit) == TRUE

\* switch c.Signature.Type: does the signature count as GPG
IsGpg(commit) == commit.Signature.Type = "gpg"

\* variant: only the first accepted key is compared
IsValidKey_FirstOnly(KeyIDs, key) == KeyIDs # <<>> /\ key = Head(KeyIDs)

\* the inner loop over pred.KeyIDs
RECURSIVE IsValidKey(_, _)
IsValidKey(KeyIDs, key) ==
    IF KeyIDs = <<>> THEN FALSE
    ELSE IF key = Head(KeyIDs) THEN TRUE
    ELSE IsValidKey(Tail(KeyIDs), key)

\* ------------------------------------------------------------------ Title
Alphabet == {"a", "b"}

\* a pattern is a literal, anchored at the start ("^lit") or not ("lit")
Patterns ==
    {[anchored |-> TRUE, lit |-> <<"a">>],
     [anchored |-> FALSE, lit |-> <<"b">>],
     [anchored |-> FALSE, lit |-> <<"a", "b">>]}

\* does the literal occur in s at position k
OccursAt(lit, s, k) == k + Len(lit) - 1 <= Len(s) /\ SubSeq(s, k, k + Len(lit) - 1) = lit

\* common.Regexp.Matches
RegexpMatches(p, s) ==
    IF p.anchored THEN OccursAt(p.lit, s, 1)
    ELSE \E k \in 1..(Len(s) + 1) : OccursAt(p.lit, s, k)

anyMatches(re, s) == \E i \in 1..Len(re) : RegexpMatches(re[i], s)

\* variant: NotMatches is checked before Matches
TitleEvaluate_NotMatchesFirst(Matches, NotMatches, title) ==
    IF Len(NotMatches) > 0 /\ ~anyMatches(NotMatches, title)
    THEN Triple(TRUE, <<"PR Title doesn't match a NotMatch pattern">>, NilError)
    ELSE IF Len(Matches) > 0 /\ anyMatches(Matches, title)
    THEN Triple(TRUE, <<"PR Title matches a Match pattern">>, NilError)
    ELSE Triple(FALSE, EmptyString, NilError)

TitleEvaluate(Matches, NotMatches, title) ==
    IF Len(Matches) > 0 /\ anyMatches(Matches, title)
    THEN Triple(TRUE, <<"PR Title matches a Match pattern">>, NilError)
    ELSE IF Len(NotMatches) > 0 /\ ~anyMatches(NotMatches, title)
    THEN Triple(TRUE, <<"PR Title doesn't match a NotMatch pattern">>, NilError)
    ELSE Triple(FALSE, EmptyString, NilError)

\* ------------------------------------------------------------- the inputs
SeqsUpTo(S, n) == UNION {[1..k -> S] : k \in 0..n}

FetchError == <<"commits unavailable">>
MembershipError == <<"membership unavailable">>

\* what ActorMembership.IsActor may answer for an identity
Answers ==
    {[member |-> TRUE, err |-> NilError],
     [member |-> FALSE, err |-> NilError],
     [member |-> FALSE, err |-> MembershipError]}

AllMembers == [s \in Signers |-> [member |-> TRUE, err |-> NilError]]

\* a pull-request context whose Commits() succeeds with cs
ContextOf(cs) == [title |-> EmptyString, commits |-> cs, commitsErr |-> NilError]

\* a pull-request context whose Commits() fails
FailingContext == [title |-> EmptyString, commits |-> <<>>, commitsErr |-> FetchError]

CommitContexts == {ContextOf(cs) : cs \in UNION {CommitLists(n) : n \in 0..MaxCommits}}
                  \cup {FailingContext}

TitleContexts ==
    {[title |-> t, commits |-> <<>>, commitsErr |-> NilError] : t \in SeqsUpTo(Alphabet, MaxTitleLen)}

Config(variant, required, KeyIDs, Matches, NotMatches) ==
    [variant |-> variant, required |-> required, KeyIDs |-> KeyIDs,
     Matches |-> Matches, NotMatches |-> NotMatches]

NoResult == Triple(FALSE, EmptyString, NilError)

\* ------------------------------------------------------------- the state
VARIABLES
    pred,       \* the predicate and its configuration
    prctx,      \* the pull-request context: title, commits or the fetch error
    actors,     \* ActorMembership's answer for every identity
    pc,         \* position of the running Evaluate: start, scan, range, done
    commits,    \* local: the fetched commits
    idx,        \* local: position of the loop over the commits
    signers,    \* local: the map of signers (HasValidSignaturesBy)
    keys,       \* local: the map of keys (HasValidSignaturesByKeys)
    pending,    \* the map keys the range loop has still to visit
    result,     \* the triple the running Evaluate returned
    fetches,    \* calls of prctx.Commits() by the running Evaluate
    inspected,  \* commits handed to hasValidSignature, in call order
    queried,    \* identities handed to IsActor, in call order
    results     \* the triples of the earlier invocations on this context

vars == <<pred, prctx, actors, pc, commits, idx, signers, keys, pending, result,
          fetches, inspected, queried, results>>

inputs == <<pred, prctx, actors>>

Locals0 ==
    /\ pc = "start"
    /\ commits = <<>>
    /\ idx = 1
    /\ signers = {}
    /\ keys = {}
    /\ pending = {}
    /\ result = NoResult
    /\ fetches = 0
    /\ inspected = <<>>
    /\ queried = <<>>

Init ==
    /\ \/ /\ pred \in {Config("Title", FALSE, <<>>, m, n) :
                        m \in SeqsUpTo(Patterns, MaxPatterns), n \in SeqsUpTo(Patterns, MaxPatterns)}
          /\ prctx \in TitleContexts
          /\ actors = AllMembers
       \/ /\ pred \in {Config("HasValidSignatures", r, <<>>, <<>>, <<>>) : r \in BOOLEAN}
          /\ prctx \in CommitContexts
          /\ actors = AllMembers
       \/ /\ pred = Config("HasValidSignaturesBy", FALSE, <<>>, <<>>, <<>>)
          /\ prctx \in CommitContexts
          /\ actors \in [Signers -> Answers]
       \/ /\ pred \in {Config("HasValidSignaturesByKeys", FALSE, k, <<>>, <<>>) :
                        k \in SeqsUpTo(Keys, MaxKeyIDs)}
          /\ prctx \in CommitContexts
          /\ actors = AllMembers
    /\ Locals0
    /\ results = <<>>

\* ------------------------------------------------------------ the actions
Return(triple) ==
    /\ result' = triple
    /\ pc' = "done"

\* commits, err := prctx.Commits(); if err != nil { return ... }
Commits(variant) ==
    /\ pc = "start"
    /\ pred.variant = variant
    /\ fetches' = fetches + 1
    /\ IF prctx.commitsErr # NilError
       THEN /\ Return(CommitsFailed(prctx.commitsErr))
            /\ UNCHANGED <<commits, idx>>
       ELSE /\ commits' = prctx.commits
            /\ idx' = 1
            /\ pc' = "scan"
            /\ UNCHANGED result
    /\ UNCHANGED <<inputs, signers, keys, pending, inspected, queried, results>>

Title_Evaluate ==
    /\ pc = "start"
    /\ pred.variant = "Title"
    /\ Return(TitleEvaluate(pred.Matches, pred.NotMatches, prctx.title))
    /\ UNCHANGED <<inputs, commits, idx, signers, keys, pending, fetches, inspected,
                   queried, results>>

HasValidSignatures_Commits == Commits("HasValidSignatures")

\* one iteration of the loop over the commits
HasValidSignatures_Loop ==
    /\ pc = "scan"
    /\ pred.variant = "HasValidSignatures"
    /\ idx <= Len(commits)
    /\ inspected' = Append(inspected, idx)
    /\ LET v == hasValidSignature(commits[idx]) IN
       IF ~v.valid
       THEN /\ Return(HasValidSignatures_Invalid(pred.required, v.desc))
            /\ UNCHANGED idx
       ELSE /\ idx' = idx + 1
            /\ UNCHANGED <<pc, result>>
    /\ UNCHANGED <<inputs, commits, signers, keys, pending, fetches, queried, results>>

HasValidSignatures_Return ==
    /\ pc = "scan"
    /\ pred.variant = "HasValidSignatures"
    /\ idx > Len(commits)
    /\ Return(HasValidSignatures_AllValid(pred.required))
    /\ UNCHANGED <<inputs, commits, idx, signers, keys, pending, fetches, inspected,
                   queried, results>>

HasValidSignaturesBy_Commits == Commits("HasValidSignaturesBy")

HasValidSignaturesBy_Loop ==
    /\ pc = "scan"
    /\ pred.variant = "HasValidSignaturesBy"
    /\ idx <= Len(commits)
    /\ inspected' = Append(inspected, idx)
    /\ LET v == hasValidSignature(commits[idx]) IN
       IF ~v.valid
       THEN /\ Return(Triple(FALSE, v.desc, NilError))
            /\ UNCHANGED <<idx, signers>>
       ELSE /\ signers' = AddSigner(signers, commits[idx])
            /\ idx' = idx + 1
            /\ UNCHANGED <<pc, result>>
    /\ UNCHANGED <<inputs, commits, keys, pending, fetches, queried, results>>

\* the loop over the commits is over: the range over the signers begins
HasValidSignaturesBy_Range ==
    /\ pc = "scan"
    /\ pred.variant = "HasValidSignaturesBy"
    /\ idx > Len(commits)
    /\ pending' = signers
    /\ pc' = "range"
    /\ UNCHANGED <<inputs, commits, idx, signers, keys, result, fetches, inspected,
                   queried, results>>

\* one iteration of the loop over the signers
HasValidSignaturesBy_IsActor ==
    /\ pc = "range"
    /\ pred.variant = "HasValidSignaturesBy"
    /\ \E signer \in pending :
          /\ queried' = Append(queried, signer)
          /\ LET step == HasValidSignaturesBy_Member(signer, actors[signer].member,
                                                     actors[signer].err) IN
             IF step.return
             THEN /\ Return(step.result)
                  /\ UNCHANGED pending
             ELSE /\ pending' = RangeRest(pending, signer)
                  /\ UNCHANGED <<pc, result>>
    /\ UNCHANGED <<inputs, commits, idx, signers, keys, fetches, inspected, results>>

HasValidSignaturesBy_Return ==
    /\ pc = "range"
    /\ pred.variant = "HasValidSignaturesBy"
    /\ pending = {}
    /\ Return(Triple(TRUE, EmptyString, NilError))
    /\ UNCHANGED <<inputs, commits, idx, signers, keys, pending, fetches, inspected,
                   queried, results>>

HasValidSignaturesByKeys_Commits == Commits("HasValidSignaturesByKeys")

HasValidSignaturesByKeys_Loop ==
    /\ pc = "scan"
    /\ pred.variant = "HasValidSignaturesByKeys"
    /\ idx <= Len(commits)
    /\ inspected' = Append(inspected, idx)
    /\ LET v == hasValidSignature(commits[idx]) IN
       IF ~v.valid
       THEN /\ Return(Triple(FALSE, v.desc, NilError))
            /\ UNCHANGED <<idx, keys>>
       ELSE IF IsGpg(commits[idx])
       THEN /\ keys' = keys \cup {commits[idx].Signature.KeyID}
            /\ idx' = idx + 1
            /\ UNCHANGED <<pc, result>>
       ELSE /\ Return(Triple(FALSE, NotGpgReason(commits[idx]), NilError))
            /\ UNCHANGED <<idx, keys>>
    /\ UNCHANGED <<inputs, commits, signers, pending, fetches, queried, results>>

HasValidSignaturesByKeys_Range ==
    /\ pc = "scan"
    /\ pred.variant = "HasValidSignaturesByKeys"
    /\ idx > Len(commits)
    /\ pending' = keys
    /\ pc' = "range"
    /\ UNCHANGED <<inputs, commits, idx, signers, keys, result, fetches, inspected,
                   queried, results>>

\* one iteration of the loop over the keys
HasValidSignaturesByKeys_Key ==
    /\ pc = "range"
    /\ pred.variant = "HasValidSignaturesByKeys"
    /\ \E key \in pending :
          IF ~IsValidKey(pred.KeyIDs, key)
          THEN /\ Return(Triple(FALSE, BadKeyReason(key), NilError))
               /\ UNCHANGED pending
          ELSE /\ pending' = RangeRest(pending, key)
               /\ UNCHANGED <<pc, result>>
    /\ UNCHANGED <<inputs, commits, idx, signers, keys, fetches, inspected, queried, results>>

HasValidSignaturesByKeys_Return ==
    /\ pc = "range"
    /\ pred.variant = "HasValidSignaturesByKeys"
    /\ pending = {}
    /\ Return(Triple(TRUE, EmptyString, NilError))
    /\ UNCHANGED <<inputs, commits, idx, signers, keys, pending, fetches, inspected,
                   queried, results>>

\* the caller invokes Evaluate again on the unchanged context
Reinvoke ==
    /\ pc = "done"
    /\ Len(results) + 1 < MaxRuns
    /\ results' = Append(results, result)
    /\ pc' = "start"
    /\ commits' = <<>>
    /\ idx' = 1
    /\ signers' = {}
    /\ keys' = {}
    /\ pending' = {}
    /\ result' = NoResult
    /\ fetches' = 0
    /\ inspected' = <<>>
    /\ queried' = <<>>
    /\ UNCHANGED inputs

Next ==
    \/ Title_Evaluate
    \/ HasValidSignatures_Commits
    \/ HasValidSignatures_Loop
    \/ HasValidSignatures_Return
    \/ HasValidSignaturesBy_Commits
    \/ HasValidSignaturesBy_Loop
    \/ HasValidSignaturesBy_Range
    \/ HasValidSignaturesBy_IsActor
    \/ HasValidSignaturesBy_Return
    \/ HasValidSignaturesByKeys_Commits
    \/ HasValidSignaturesByKeys_Loop
    \/ HasValidSignaturesByKeys_Range
    \/ HasValidSignaturesByKeys_Key
    \/ HasValidSignaturesByKeys_Return
    \/ Reinvoke

Spec == Init /\ [][Next]_vars

\* ------------------------------------------------- notions of the claims
Done == pc = "done"
Is(variant) == pred.variant = variant
Fetched == prctx.commitsErr = NilError
SignaturePredicate ==
    pred.variant \in {"HasValidSignatures", "HasValidSignaturesBy", "HasValidSignaturesByKeys"}

\* the commits of the context and their number
PR == prctx.commits
N == Len(prctx.commits)

\* a present and valid signature
Valid(c) == ~c.Signature.isNil /\ c.Signature.IsValid
AllValid == \A i \in 1..N : Valid(PR[i])
AllGpg == \A i \in 1..N : PR[i].Signature.Type = "gpg"

\* the first 10 characters of a hash
ShortSha(sha) == [k \in 1..(IF Len(sha) < 10 THEN Len(sha) ELSE 10) |-> sha[k]]

\* the reason the validity primitive gives for an invalid commit
ValidityReason(c) ==
    IF c.Signature.isNil
    THEN <<"Commit ">> \o ShortSha(c.SHA) \o <<" has no signature">>
    ELSE <<"Commit ">> \o ShortSha(c.SHA) \o <<" has an invalid signature due to ">>
         \o c.Signature.State

\* position of the first invalid commit
FirstInvalid == CHOOSE i \in 1..N : ~Valid(PR[i]) /\ \A j \in 1..(i - 1) : Valid(PR[j])

\* position of the first commit that is invalid or validly signed but not GPG
Rejected(c) == ~Valid(c) \/ c.Signature.Type # "gpg"
FirstRejected == CHOOSE i \in 1..N : Rejected(PR[i]) /\ \A j \in 1..(i - 1) : ~Rejected(PR[j])

\* the distinct signers and keys of the commits
SignersOf == {PR[i].Signature.Signer : i \in 1..N}
KeysOf == {PR[i].Signature.KeyID : i \in 1..N}
IsMember(s) == actors[s].member /\ actors[s].err = NilError
NonMembers == {s \in SignersOf : ~actors[s].member /\ actors[s].err = NilError}
Refused == {s \in SignersOf : ~IsMember(s)}
Allowed(k) == \E j \in 1..Len(pred.KeyIDs) : pred.KeyIDs[j] = k
Absent == {k \in KeysOf : ~Allowed(k)}

\* e is err wrapped once
Wraps(e, err) == Len(e) = Len(err) + 1 /\ Tail(e) = err

\* ---------------------------------------------------------------- claims

\* C1: HasValidSignatures(required), commit fetch succeeded: satisfied exactly
\* when (every commit has a present and valid signature) = required; with
\* required and an invalid commit the reason is that of the first invalid commit;
\* with not required and all valid the reason is the all-valid sentence; a
\* satisfied result has an empty reason.
C1_AllValidEqualsRequired ==
    (Done /\ Is("HasValidSignatures") /\ Fetched) =>
        /\ result.err = NilError
        /\ result.satisfied = (AllValid = pred.required)
        /\ (pred.required /\ ~AllValid) => result.reason = ValidityReason(PR[FirstInvalid])
        /\ (~pred.required /\ AllValid) =>
               result.reason = <<"All commits are signed and have valid signatures">>
        /\ result.satisfied => result.reason = EmptyString

C1_Witness ==
    /\ Done /\ Is("HasValidSignatures") /\ Fetched /\ pred.required
    /\ N >= 3 /\ Valid(PR[1]) /\ ~Valid(PR[2]) /\ ~Valid(PR[3])
    /\ PR[2].Signature # PR[3].Signature
    /\ ~result.satisfied
    /\ result.reason = ValidityReason(PR[2])

\* C2 as stated: HasValidSignaturesByKeys over a list with an invalid commit is
\* unsatisfied with the validity reason of the first invalid commit, whatever the
\* types of the other commits, and the not-GPG reason is given only for lists
\* whose commits are all valid.
C2_Original ==
    (Done /\ Is("HasValidSignaturesByKeys") /\ Fetched /\ ~AllValid) =>
        /\ ~result.satisfied
        /\ result.err = NilError
        /\ result.reason = ValidityReason(PR[FirstInvalid])

\* C2 amended: over a list with an invalid commit the result is unsatisfied
\* without failure, and the reason is that of the first commit in list order that
\* is invalid or validly signed with a type other than GPG: its validity reason if
\* it is invalid, the not-GPG reason otherwise.
C2_FirstRejectedCommit ==
    (Done /\ Is("HasValidSignaturesByKeys") /\ Fetched /\ ~AllValid) =>
        /\ ~result.satisfied
        /\ result.err = NilError
        /\ result.reason = IF Valid(PR[FirstRejected])
                           THEN <<"Commit ">> \o ShortSha(PR[FirstRejected].SHA)
                                \o <<" signature is not a GPG signature">>
                           ELSE ValidityReason(PR[FirstRejected])
        /\ (result.reason = ValidityReason(PR[FirstInvalid]))
             <=> (\A j \in 1..(FirstInvalid - 1) : PR[j].Signature.Type = "gpg")

C2_Witness ==
    /\ Done /\ Is("HasValidSignaturesByKeys") /\ Fetched
    /\ N >= 2 /\ Valid(PR[1]) /\ PR[1].Signature.Type = "ssh" /\ ~Valid(PR[2])
    /\ ~result.satisfied
    /\ result.reason # ValidityReason(PR[2])

\* C3 as stated: for every variant, a result without failure has a non-empty
\* reason exactly when it is unsatisfied.
C3_Original ==
    (Done /\ result.err = NilError) => ((result.reason # EmptyString) <=> ~result.satisfied)

\* C3 amended: a result without failure of a signature predicate has a non-empty
\* reason exactly when it is unsatisfied; a result of Title has a non-empty
\* reason exactly when it is satisfied.
C3_ReasonAndOutcome ==
    (Done /\ result.err = NilError) =>
        /\ SignaturePredicate => ((result.reason # EmptyString) <=> ~result.satisfied)
        /\ Is("Title") => ((result.reason # EmptyString) <=> result.satisfied)

C3_Witness ==
    /\ Done /\ Is("HasValidSignatures") /\ Fetched /\ ~pred.required
    /\ N >= 1 /\ AllValid
    /\ ~result.satisfied /\ result.reason # EmptyString /\ result.err = NilError

\* C4 as stated: every invocation of Evaluate on the same configuration, context
\* and membership answers returns the same triple.
C4_Original ==
    Done => \A i \in 1..Len(results) : results[i] = result

\* the inputs on which the order of the range over the map decides what is
\* returned: all commits pass the loop over the commits and two or more distinct
\* signers are refused (HasValidSignaturesBy) or two or more distinct keys are
\* absent from KeyIDs (HasValidSignaturesByKeys)
OrderDecides ==
    \/ Is("HasValidSignaturesBy") /\ Fetched /\ AllValid /\ Cardinality(Refused) >= 2
    \/ Is("HasValidSignaturesByKeys") /\ Fetched /\ AllValid /\ AllGpg
       /\ Cardinality(Absent) >= 2

\* C4 amended: every invocation on the same inputs returns the same satisfied
\* flag; the whole triple is the same unless all commits pass the loop over the
\* commits and several distinct signers are refused or several distinct keys are
\* absent from the allow-list.
C4_SameUnlessOrderDecides ==
    Done => \A i \in 1..Len(results) :
                /\ results[i].satisfied = result.satisfied
                /\ ~OrderDecides => results[i] = result

C4_Witness ==
    /\ Done /\ Is("HasValidSignaturesBy") /\ Fetched /\ AllValid
    /\ Len(results) >= 1
    /\ Cardinality(SignersOf) = 2 /\ Cardinality(Refused) = 1
    /\ ~result.satisfied
    /\ results[1] = result

\* C5: HasValidSignaturesBy, fetch and membership queries succeeded: satisfied
\* (with empty reason) exactly when every commit is valid and every distinct
\* signer is a member; with all commits valid and a non-member signer the result
\* is unsatisfied and names a signer of some commit that is not a member.
C5_SignersAreMembers ==
    (Done /\ Is("HasValidSignaturesBy") /\ Fetched /\ result.err = NilError) =>
        /\ result.satisfied <=> (AllValid /\ \A s \in SignersOf : IsMember(s))
        /\ result.satisfied => result.reason = EmptyString
        /\ (AllValid /\ ~result.satisfied) =>
               \E s \in NonMembers :
                   result.reason = <<"Contributor ", "\"">> \o s
                       \o <<"\"", " does not meet the required membership conditions for signing">>

C5_Witness ==
    /\ Done /\ Is("HasValidSignaturesBy") /\ Fetched /\ AllValid
    /\ Cardinality(SignersOf) = 2 /\ Cardinality(NonMembers) = 1 /\ Cardinality(Refused) = 1
    /\ Len(queried) = 2
    /\ ~result.satisfied /\ result.err = NilError

\* C6: HasValidSignaturesByKeys, fetch succeeded: satisfied (with empty reason)
\* exactly when every commit is valid, every signature is GPG and every distinct
\* key is an entry of KeyIDs; so a valid non-GPG signature makes it unsatisfied
\* for every KeyIDs, and so does an empty KeyIDs on a non-empty list.
C6_KeysAreAllowed ==
    (Done /\ Is("HasValidSignaturesByKeys") /\ Fetched) =>
        /\ result.err = NilError
        /\ result.satisfied <=> (AllValid /\ AllGpg /\ \A k \in KeysOf : Allowed(k))
        /\ result.satisfied => result.reason = EmptyString
        /\ (\E i \in 1..N : Valid(PR[i]) /\ PR[i].Signature.Type # "gpg") => ~result.satisfied
        /\ (N > 0 /\ pred.KeyIDs = <<>>) => ~result.satisfied

C6_Witness ==
    /\ Done /\ Is("HasValidSignaturesByKeys") /\ Fetched /\ AllValid /\ AllGpg
    /\ Cardinality(KeysOf) = 2 /\ Len(pred.KeyIDs) = 2
    /\ result.satisfied

\* the title matches at least one pattern of the set
MatchesSome(set) == \E i \in 1..Len(set) : RegexpMatches(set[i], prctx.title)
MatchBranch == Len(pred.Matches) > 0 /\ MatchesSome(pred.Matches)
NotMatchBranch == Len(pred.NotMatches) > 0 /\ ~MatchesSome(pred.NotMatches)

\* C7: Title never fails and is satisfied exactly when (Matches is non-empty and
\* the title matches one of its patterns) or (NotMatches is non-empty and the
\* title matches none of its patterns); when both hold the reason is the Match
\* reason; with both sets empty it is unsatisfied.
C7_TitleMatches ==
    (Done /\ Is("Title")) =>
        /\ result.err = NilError
        /\ result.satisfied <=> (MatchBranch \/ NotMatchBranch)
        /\ (MatchBranch /\ NotMatchBranch) =>
               result.reason = <<"PR Title matches a Match pattern">>
        /\ (pred.Matches = <<>> /\ pred.NotMatches = <<>>) => ~result.satisfied

C7_Witness ==
    /\ Done /\ Is("Title")
    /\ MatchBranch /\ NotMatchBranch
    /\ Len(pred.Matches) = 2 /\ ~RegexpMatches(pred.Matches[1], prctx.title)
    /\ result.satisfied
    /\ result.reason = <<"PR Title matches a Match pattern">>

\* C8: when Commits() fails, each signature predicate returns a failure that
\* wraps the fetch error, with satisfied false and an empty reason, and queries
\* no membership; a result that carries a reason or is satisfied carries no
\* failure.
C8_FetchFailure ==
    /\ (Done /\ SignaturePredicate /\ ~Fetched) =>
           /\ ~result.satisfied
           /\ result.reason = EmptyString
           /\ Wraps(result.err, prctx.commitsErr)
           /\ queried = <<>>
           /\ inspected = <<>>
    /\ (Done /\ (result.satisfied \/ result.reason # EmptyString)) => result.err = NilError

C8_Witness ==
    /\ Done /\ Is("HasValidSignaturesBy") /\ ~Fetched
    /\ fetches = 1
    /\ result.err = <<"failed to get commits">> \o FetchError

\* the running evaluation ended on a membership query that failed
MembershipFailed ==
    /\ Done /\ Is("HasValidSignaturesBy") /\ Fetched /\ AllValid
    /\ queried # <<>>
    /\ actors[queried[Len(queried)]].err # NilError

\* C9: when IsActor fails for a queried signer, HasValidSignaturesBy returns a
\* failure that wraps the membership error, with satisfied false and an empty
\* reason, and queries no further signer.
C9_MembershipFailureWrapped ==
    MembershipFailed =>
        /\ ~result.satisfied
        /\ result.reason = EmptyString
        /\ Wraps(result.err, actors[queried[Len(queried)]].err)
        /\ \A i \in 1..(Len(queried) - 1) : actors[queried[i]].err = NilError

\* C10: HasValidSignaturesBy fetches the commits at most once, queries IsActor
\* at most once per distinct signer, only after all commits were scanned and
\* never when a commit is invalid, and inspects no commit after the first
\* invalid one.
C10_CallsAreBounded ==
    Is("HasValidSignaturesBy") =>
        /\ fetches <= 1
        /\ \A i, j \in 1..Len(queried) : i # j => queried[i] # queried[j]
        /\ Len(queried) <= Cardinality(SignersOf)
        /\ queried # <<>> => (Len(inspected) = N /\ AllValid)
        /\ ~AllValid => queried = <<>>
        /\ inspected = [k \in 1..Len(inspected) |-> k]
        /\ \A k \in 1..Len(inspected) : \A j \in 1..(inspected[k] - 1) : Valid(PR[j])
        /\ Len(inspected) <= N

C10_Witness ==
    /\ Done /\ Is("HasValidSignaturesBy") /\ Fetched /\ AllValid
    /\ N = 3 /\ Cardinality(SignersOf) = 2
    /\ Len(queried) = 2 /\ Len(inspected) = 3 /\ fetches = 1
    /\ result.satisfied

====
